---- MODULE Spec2Model ----
(***************************************************************************)
(* Model of the profile service's GetProfiles read path                    *)
(* (hotelReservation/services/profile/server.go): one request is served    *)
(* from memcached, the cache misses are fetched from MongoDB by one        *)
(* goroutine each, the fetched profiles are appended to a shared slice     *)
(* under a mutex and written back to memcached by detached goroutines.     *)
(* The instrumentation wrapper Span (StartSpan / Finish) is modelled by    *)
(* its counter and histogram effects.                                      *)
(***************************************************************************)
EXTENDS Bags, FiniteSets, Integers, Sequences, TLC

\* ------------------------------------------------------------------ bounds
\* Longest req.HotelIds a request carries.
MaxLen == 3

\* The hotel identifiers requests draw from.
Ids == {"h1", "h2", "h3"}

\* ------------------------------------------------------------ data model
\* pb.Hotel, reduced to the fields the path depends on: the identifier and
\* whether a float field holds a value encoding/json refuses (NaN).
ZeroHotel == [Id |-> "", Lat |-> "ok"]

\* json.Marshal(hotelProf): the Id is omitted when empty; a NaN float is an
\* error and yields no bytes.
Marshal(h) ==
  IF h.Lat = "NaN" THEN [err |-> TRUE, bytes |-> <<>>]
  ELSE IF h.Id = "" THEN [err |-> FALSE, bytes |-> <<"{", "}">>]
  ELSE [err |-> FALSE, bytes |-> <<"{", "id", h.Id, "}">>]

\* json.Unmarshal(item.Value, hotelProf): on malformed input the target is left
\* untouched and an error returned; fields absent from the input keep their value.
Unmarshal(b, into) ==
  IF Len(b) >= 2 /\ b[1] = "{" /\ b[Len(b)] = "}"
  THEN IF Len(b) = 4 /\ b[2] = "id"
       THEN [err |-> FALSE, h |-> [into EXCEPT !.Id = b[3]]]
       ELSE [err |-> FALSE, h |-> into]
  ELSE [err |-> TRUE, h |-> into]

\* Label tuples of the spans this path starts.
ServerLabels == <<"GetProfiles">>
MemcLabels == <<"memcached", "get_profile">>
MongoLabels == <<"mongo", "profile">>
LabelTuples == {ServerLabels, MemcLabels, MongoLabels}

\* A span that was never started.
NoSpan == [labels |-> <<>>, started |-> 0, finishes |-> 0]

\* A set's elements in some fixed order.
RECURSIVE SetToSeq(_)
SetToSeq(S) ==
  IF S = {} THEN <<>>
  ELSE LET x == CHOOSE y \in S : TRUE IN <<x>> \o SetToSeq(S \ {x})

Range(s) == {s[i] : i \in DOMAIN s}

\* The bag of a sequence's elements.
BagOfSeq(s) == [x \in Range(s) |-> Cardinality({i \in DOMAIN s : s[i] = x})]

VARIABLES
  store,            \* MongoDB collection "hotels": partial map id -> Hotel
  cache,            \* memcached: partial map key -> bytes
  req,              \* req.HotelIds, as a bag of ids
  pc,               \* position of the GetProfiles goroutine
  hotelIds,         \* local slice hotelIds, as a bag of ids (its order is never read)
  profileMap,       \* local map profileMap (its key set)
  resMap,           \* reply of GetMulti: partial map key -> bytes
  cacheFault,       \* whether GetMulti reported an error other than a miss
  hotels,           \* shared slice hotels, as a bag of Hotel
  wg,               \* sync.WaitGroup counter
  mutex,            \* sync.Mutex: 0 when free, else the task holding it
  tasks,            \* the fetch goroutines, in spawn order
  inflight,         \* detached "go s.MemcClient.Set(...)" not yet executed
  res,              \* what the caller received
  serverSpan,       \* span of the request
  clientSpan,       \* span of the memcached call
  requestCounter,   \* counter vector, by label tuple
  latencyHistogram, \* histogram vector (number of observations), by label tuple
  spansStarted,     \* number of spans started, by label tuple
  memcGets,         \* number of GetMulti calls issued
  memcKeys,         \* the keys argument of the GetMulti call, as a bag
  storeCalls,       \* number of Find calls issued, by id
  setCalls,         \* number of write-backs spawned, by key
  other             \* the locals of a second GetProfiles call while it is not running

vars == <<store, cache, req, pc, hotelIds, profileMap, resMap, cacheFault, hotels, wg, mutex,
          tasks, inflight, res, serverSpan, clientSpan, requestCounter,
          latencyHistogram, spansStarted, memcGets, memcKeys, storeCalls, setCalls, other>>

envVars == <<store, other>>
spanVars == <<serverSpan, clientSpan, requestCounter, latencyHistogram, spansStarted>>
countVars == <<memcGets, storeCalls, setCalls>>

\* ------------------------------------------------------------------- spans
\* StartSpan: a fresh handle for the label tuple.
StartSpan(labels) == [labels |-> labels, started |-> 1, finishes |-> 0]

\* A Finish that leaves out the counter increment.
FinishCounterSkip(ctr, span) == ctr

\* Span.Finish on the counter vector: one increment for the span's labels.
FinishCounter(ctr, span) == [ctr EXCEPT ![span.labels] = @ + 1]

\* Span.Finish on the histogram vector: one observation for the span's labels.
FinishHistogram(hist, span) == [hist EXCEPT ![span.labels] = @ + 1]

\* Span.Finish on the handle itself.
FinishSpan(span) == [span EXCEPT !.finishes = @ + 1]

\* --------------------------------------------------------- initial states
Hotel(id, lat) == [Id |-> id, Lat |-> lat]

PartialMaps(D, R(_)) ==
  UNION {{f \in [S -> UNION {R(k) : k \in S}] : \A k \in S : f[k] \in R(k)} : S \in SUBSET D}

StoreValues(k) == {Hotel(k, "ok"), Hotel(k, "NaN")}

\* What earlier requests can have left in memcached under key k: the
\* encoding of the stored profile, the encoding of an empty profile (after a
\* failed fetch), or no bytes (after a failed encoding).
CacheValues(st, k) ==
  {Marshal(ZeroHotel).bytes}
    \cup (IF k \in DOMAIN st THEN {Marshal(st[k]).bytes} ELSE {})

Requests == UNION {[1..n -> Ids] : n \in 0..MaxLen}

\* Lines 143-162: the parameters and locals of a GetProfiles call as it starts.
NewLocals ==
  [req |-> EmptyBag, pc |-> "start", hotelIds |-> EmptyBag, profileMap |-> {},
   resMap |-> <<>>, cacheFault |-> FALSE, hotels |-> EmptyBag, wg |-> 0, mutex |-> 0,
   tasks |-> <<>>, res |-> [returned |-> FALSE, Hotels |-> EmptyBag],
   serverSpan |-> NoSpan, clientSpan |-> NoSpan, memcKeys |-> EmptyBag]

Init ==
  /\ store \in PartialMaps(Ids, StoreValues)
  /\ cache \in PartialMaps(Ids, LAMBDA k : CacheValues(store, k))
  /\ req = EmptyBag
  /\ pc = "start"
  /\ hotelIds = EmptyBag
  /\ profileMap = {}
  /\ resMap = <<>>
  /\ cacheFault = FALSE
  /\ hotels = EmptyBag
  /\ wg = 0
  /\ mutex = 0
  /\ tasks = <<>>
  /\ inflight = {}
  /\ res = [returned |-> FALSE, Hotels |-> EmptyBag]
  /\ serverSpan = NoSpan
  /\ clientSpan = NoSpan
  /\ requestCounter = [l \in LabelTuples |-> 0]
  /\ latencyHistogram = [l \in LabelTuples |-> 0]
  /\ spansStarted = [l \in LabelTuples |-> 0]
  /\ memcGets = 0
  /\ memcKeys = EmptyBag
  /\ storeCalls = [k \in Ids |-> 0]
  /\ setCalls = [k \in Ids |-> 0]
  /\ other = NewLocals


\* ------------------------------------------------- the GetProfiles goroutine
\* "one hotel should only have one profile": the key set of profileMap.
Dedup(ids) == Range(ids)

\* A copy loop that keeps one occurrence of every id.
CopyIdsDistinct(ids) == SetToBag(Range(ids))

\* The slice hotelIds after the loop: every id of the request, repeats included.
CopyIds(ids) == BagOfSeq(ids)

\* MemcClient.GetMulti(keys) without error: the items memcached holds under keys.
GetMulti(keys, c) == [k \in BagToSet(keys) \cap DOMAIN c |-> c[k]]

\* The error GetMulti returns: none, a miss (only with an empty reply), or a
\* connectivity fault.
GetMultiErrors(reply) ==
  {"nil", "fault"} \cup (IF DOMAIN reply = {} THEN {"ErrCacheMiss"} ELSE {})

\* An error test that lets every reply through to the hit loop.
AfterGetDegrade(e) == "hits"

\* Line 170: "err != nil && err != memcache.ErrCacheMiss" leads to log.Panic,
\* anything else to the hit loop.
AfterGet(e) == IF e # "nil" /\ e # "ErrCacheMiss" THEN "panic" ELSE "hits"

\* A barrier armed for one task however many are spawned.
WgAddOnce(n, pm) == IF pm = {} THEN n ELSE n + 1

\* Line 183: wg.Add(len(profileMap)).
WgAdd(n, pm) == n + Cardinality(pm)

\* The profile appended for one cache hit: json.Unmarshal into a new pb.Hotel,
\* the error ignored.
HitProfile(item) == Unmarshal(item, ZeroHotel).h

\* The keys the hit loop visits: "for hotelId, item := range resMap".
HitKeys(ids, reply) == SetToSeq(DOMAIN reply)

\* The loop over the hits: every visited key's profile is appended to hotels.
RECURSIVE AppendHits(_, _, _)
AppendHits(hs, keys, reply) ==
  IF keys = <<>> THEN hs
  ELSE AppendHits(hs (+) SetToBag({HitProfile(reply[Head(keys)])}), Tail(keys), reply)

\* A hit loop that leaves profileMap as it was.
DeleteHitsKeep(pm, keys) == pm

\* The loop over the hits: every visited key is deleted from profileMap.
DeleteHits(pm, keys) == pm \ Range(keys)

\* A spawn loop over the occurrences in hotelIds instead of the keys of profileMap.
SpawnKeysPerOccurrence(ids, pm) ==
  SetToSeq(pm) \o SelectSeq(SetToSeq(pm), LAMBDA k : ids[k] > 1)

\* A spawn loop over every requested id, the cache hits included.
SpawnKeysEveryId(ids, pm) == SetToSeq(BagToSet(ids))

\* The keys the spawn loop visits: "for hotelId := range profileMap".
SpawnKeys(ids, pm) == SetToSeq(pm)

\* A goroutine as "go func(hotelId string)" creates it.
NewTask(hotelId) ==
  [hotelId |-> hotelId, pc |-> "spawned", hotelProf |-> ZeroHotel, err |-> FALSE,
   span |-> NoSpan, session |-> "none", marshalErr |-> FALSE, seen |-> EmptyBag]

\* Lines 144-166: start the server span, copy the ids, build profileMap.
Begin(ids) ==
  /\ pc = "start"
  /\ serverSpan' = StartSpan(ServerLabels)
  /\ spansStarted' = [spansStarted EXCEPT ![ServerLabels] = @ + 1]
  /\ req' = BagOfSeq(ids)
  /\ hotelIds' = CopyIds(ids)
  /\ profileMap' = Dedup(ids)
  /\ pc' = "memc"
  /\ UNCHANGED <<envVars, memcKeys, cache, resMap, cacheFault, hotels, wg, mutex, tasks, inflight, res,
                 clientSpan, requestCounter, latencyHistogram, countVars>>

\* Lines 167-171: the memcached span around GetMulti, then the error test.
MemcGet ==
  /\ pc = "memc"
  /\ LET span == StartSpan(MemcLabels)
         reply == GetMulti(hotelIds, cache)
     IN \E e \in GetMultiErrors(reply) :
          /\ clientSpan' = FinishSpan(span)
          /\ spansStarted' = [spansStarted EXCEPT ![MemcLabels] = @ + 1]
          /\ requestCounter' = FinishCounter(requestCounter, span)
          /\ latencyHistogram' = FinishHistogram(latencyHistogram, span)
          /\ memcGets' = memcGets + 1
          /\ memcKeys' = hotelIds
          /\ resMap' = IF e = "fault" THEN <<>> ELSE reply
          /\ cacheFault' = (e = "fault")
          /\ pc' = AfterGet(e)
  /\ UNCHANGED <<envVars, req, cache, hotelIds, profileMap, hotels, wg, mutex, tasks,
                 inflight, res, serverSpan, storeCalls, setCalls>>

\* Line 171: log.Panic panics; the deferred serverSpan.Finish runs and the call
\* ends without a result.
Panic ==
  /\ pc = "panic"
  /\ serverSpan' = FinishSpan(serverSpan)
  /\ requestCounter' = FinishCounter(requestCounter, serverSpan)
  /\ latencyHistogram' = FinishHistogram(latencyHistogram, serverSpan)
  /\ pc' = "panicked"
  /\ UNCHANGED <<envVars, req, memcKeys, cache, hotelIds, profileMap, resMap, cacheFault, hotels, wg, mutex,
                 tasks, inflight, res, clientSpan, spansStarted, countVars>>

\* Lines 173-213: the hit loop, then wg.Add and one goroutine per pending key.
CachePass ==
  /\ pc = "hits"
  /\ LET keys == HitKeys(hotelIds, resMap)
         pm == DeleteHits(profileMap, keys)
         spawn == SpawnKeys(hotelIds, pm)
     IN /\ hotels' = AppendHits(hotels, keys, resMap)
        /\ profileMap' = pm
        /\ wg' = WgAdd(wg, pm)
        /\ tasks' = [i \in 1..Len(spawn) |-> NewTask(spawn[i])]
  /\ pc' = "wait"
  /\ UNCHANGED <<envVars, req, memcKeys, cache, hotelIds, resMap, cacheFault, mutex, inflight, res, spanVars,
                 countVars>>

\* Lines 215-219: wg.Wait returns at zero; the result is handed to the caller and
\* the deferred serverSpan.Finish runs.
Return ==
  /\ pc = "wait"
  /\ wg = 0
  /\ res' = [returned |-> TRUE, Hotels |-> hotels]
  /\ serverSpan' = FinishSpan(serverSpan)
  /\ requestCounter' = FinishCounter(requestCounter, serverSpan)
  /\ latencyHistogram' = FinishHistogram(latencyHistogram, serverSpan)
  /\ pc' = "done"
  /\ UNCHANGED <<envVars, req, memcKeys, cache, hotelIds, profileMap, resMap, cacheFault, hotels, wg, mutex,
                 tasks, inflight, clientSpan, spansStarted, countVars>>


\* ------------------------------------------------------- the fetch goroutines
\* The error of c.Find(bson.M{"id": hotelId}).One(...): nil when the collection
\* holds the id, ErrNotFound when it does not, or an operational fault.
FindErrors(st, hotelId) ==
  (IF hotelId \in DOMAIN st THEN {"nil"} ELSE {"ErrNotFound"}) \cup {"StoreFault"}

\* hotelProf after One(&hotelProf): the stored profile, or the new(pb.Hotel) it
\* was before the call when the query failed.
FindOne(st, hotelId, e) == IF e = "nil" THEN st[hotelId] ELSE ZeroHotel

\* Lines 199-201: the profile a task appends to hotels.
Appended(t) == SetToBag({t.hotelProf})

\* An item keyed by the identifier found in the fetched profile.
SetItemProfileKey(i, t) ==
  [task |-> i, Key |-> t.hotelProf.Id, Value |-> Marshal(t.hotelProf).bytes]

\* Lines 203-210: the item a task hands to the detached MemcClient.Set.
SetItem(i, t) == [task |-> i, Key |-> t.hotelId, Value |-> Marshal(t.hotelProf).bytes]

\* A task that signals the barrier twice.
WgDoneTwice(n, t) == n - 2

\* A task that leaves on a failed fetch before wg.Done is deferred.
WgDoneSkipFailed(n, t) == IF t.err THEN n ELSE n - 1

\* Line 211: the deferred wg.Done of task t on the counter.
WgDone(n, t) == n - 1

\* A write-back whose failure aborts the call.
SetReturnChecked(ok, p) == IF ok THEN p ELSE "panicked"

\* Line 210: the go statement drops what Set returns; the position of the
\* GetProfiles goroutine does not depend on it.
SetReturn(ok, p) == p

\* Lines 186-197: copy the session, run the query inside its span, log a failure.
Fetch(i) ==
  /\ i \in DOMAIN tasks
  /\ tasks[i].pc = "spawned"
  /\ LET t == tasks[i]
         span == StartSpan(MongoLabels)
     IN \E e \in FindErrors(store, t.hotelId) :
          /\ tasks' = [tasks EXCEPT ![i] =
                         [t EXCEPT !.pc = "lock", !.session = "open", !.err = (e # "nil"),
                                   !.hotelProf = FindOne(store, t.hotelId, e),
                                   !.span = FinishSpan(span)]]
          /\ spansStarted' = [spansStarted EXCEPT ![MongoLabels] = @ + 1]
          /\ requestCounter' = FinishCounter(requestCounter, span)
          /\ latencyHistogram' = FinishHistogram(latencyHistogram, span)
          /\ storeCalls' = [storeCalls EXCEPT ![t.hotelId] = @ + 1]
  /\ UNCHANGED <<envVars, req, memcKeys, cache, pc, hotelIds, profileMap, resMap, cacheFault, hotels, wg, mutex,
                 inflight, res, serverSpan, clientSpan, memcGets, setCalls>>

\* A Lock that does not wait for the holder.
MutexFreeAlways(m) == TRUE

\* mutex.Lock goes through only when no task holds the mutex.
MutexFree(m) == m = 0

\* Lines 199-200: mutex.Lock, then append reads the shared slice before it
\* writes the longer one.
Lock(i) ==
  /\ i \in DOMAIN tasks
  /\ tasks[i].pc = "lock"
  /\ MutexFree(mutex)
  /\ mutex' = i
  /\ tasks' = [tasks EXCEPT ![i].pc = "append", ![i].seen = hotels]
  /\ UNCHANGED <<envVars, req, memcKeys, cache, pc, hotelIds, profileMap, resMap, cacheFault, hotels, wg,
                 inflight, res, spanVars, countVars>>

\* Lines 200-201: the slice read plus the profile is stored to hotels, mutex.Unlock.
AppendUnlock(i) ==
  /\ i \in DOMAIN tasks
  /\ tasks[i].pc = "append"
  /\ hotels' = tasks[i].seen (+) Appended(tasks[i])
  /\ mutex' = 0
  /\ tasks' = [tasks EXCEPT ![i].pc = "marshal", ![i].seen = EmptyBag]
  /\ UNCHANGED <<envVars, req, memcKeys, cache, pc, hotelIds, profileMap, resMap, cacheFault, wg, inflight, res,
                 spanVars, countVars>>

\* Lines 203-210: encode the profile, log an encoding error, spawn the detached Set.
WriteBack(i) ==
  /\ i \in DOMAIN tasks
  /\ tasks[i].pc = "marshal"
  /\ inflight' = inflight \cup {SetItem(i, tasks[i])}
  /\ setCalls' = [setCalls EXCEPT ![tasks[i].hotelId] = @ + 1]
  /\ tasks' = [tasks EXCEPT ![i].pc = "return",
                            ![i].marshalErr = Marshal(tasks[i].hotelProf).err]
  /\ UNCHANGED <<envVars, req, memcKeys, cache, pc, hotelIds, profileMap, resMap, cacheFault, hotels, wg, mutex,
                 res, spanVars, memcGets, storeCalls>>

\* Line 211: the deferred wg.Done, first of the deferred calls to run.
Done(i) ==
  /\ i \in DOMAIN tasks
  /\ tasks[i].pc = "return"
  /\ wg' = WgDone(wg, tasks[i])
  /\ tasks' = [tasks EXCEPT ![i].pc = "close"]
  /\ UNCHANGED <<envVars, req, memcKeys, cache, pc, hotelIds, profileMap, resMap, cacheFault, hotels, mutex,
                 inflight, res, spanVars, countVars>>

\* A Close that is skipped when the fetch failed.
SessionCloseOnSuccess(t) == IF t.err THEN t.session ELSE "closed"

\* Line 187: session.Close is deferred, so it runs whatever the fetch returned.
SessionClose(t) == "closed"

\* Line 187: the deferred session.Close, last of the deferred calls to run.
Close(i) ==
  /\ i \in DOMAIN tasks
  /\ tasks[i].pc = "close"
  /\ tasks' = [tasks EXCEPT ![i].pc = "exit", ![i].session = SessionClose(tasks[i])]
  /\ UNCHANGED <<envVars, req, memcKeys, cache, pc, hotelIds, profileMap, resMap, cacheFault, hotels, wg, mutex,
                 inflight, res, spanVars, countVars>>

\* Line 210: a detached MemcClient.Set runs; its result goes nowhere.
MemcSet(m) ==
  /\ m \in inflight
  /\ inflight' = inflight \ {m}
  /\ \E ok \in BOOLEAN :
       /\ cache' = IF ok
                   THEN [k \in DOMAIN cache \cup {m.Key} |->
                           IF k = m.Key THEN m.Value ELSE cache[k]]
                   ELSE cache
       /\ pc' = SetReturn(ok, pc)
  /\ UNCHANGED <<envVars, req, memcKeys, hotelIds, profileMap, resMap, cacheFault, hotels, wg, mutex, tasks,
                 res, spanVars, countVars>>

MaxTasks == MaxLen

Next ==
  \/ pc = "start" /\ \E ids \in Requests : Begin(ids)
  \/ MemcGet
  \/ Panic
  \/ CachePass
  \/ Return
  \/ \E i \in 1..MaxTasks : Fetch(i)
  \/ \E i \in 1..MaxTasks : Lock(i)
  \/ \E i \in 1..MaxTasks : AppendUnlock(i)
  \/ \E i \in 1..MaxTasks : WriteBack(i)
  \/ \E i \in 1..MaxTasks : Done(i)
  \/ \E i \in 1..MaxTasks : Close(i)
  \/ \E m \in inflight : MemcSet(m)

Spec == Init /\ [][Next]_vars


\* ------------------------------------------------------------- vocabulary
\* The distinct identifiers of the request.
Requested == BagToSet(hotelIds)

\* The goroutines fetching identifier k.
TasksFor(k) == {i \in DOMAIN tasks : tasks[i].hotelId = k}

\* The identifiers the records of a result carry.
IdsOf(hs) == {h.Id : h \in BagToSet(hs)}

\* The number of records of hs that carry identifier id.
RecordsWithId(hs, id) ==
  BagCardinality([h \in {x \in BagToSet(hs) : x.Id = id} |-> hs[h]])

\* The task has made its store call and its append.
MadeAppend(t) == t.pc \in {"marshal", "return", "close", "exit"}

\* The task has signalled the barrier.
Signalled(t) == t.pc \in {"close", "exit"}

\* ------------------------------------------------------------------ C1
\* C1: when GetProfiles returns, the Result holds no more records than the
\* request has distinct identifiers, and no two of its records carry the same
\* identifier.
C1_AtMostOnePerId ==
  pc = "done" =>
    /\ BagCardinality(res.Hotels) <= Cardinality(Requested)
    /\ \A id \in IdsOf(res.Hotels) : RecordsWithId(res.Hotels, id) = 1

\* The part of C1 the code keeps: one record per distinct identifier, never more.
C1_CountBound ==
  pc = "done" => BagCardinality(res.Hotels) = Cardinality(Requested)

\* ------------------------------------------------------------------ C2
\* C2: a task whose store fetch failed appends no record: when GetProfiles
\* returns, the Result holds exactly the cache hits and the profiles of the
\* tasks whose fetch succeeded; a request whose only identifier misses the
\* cache and the store returns an empty Result.
C2_FailedFetchAppendsNothing ==
  pc = "done" =>
    BagCardinality(res.Hotels) =
      Cardinality(DOMAIN resMap) + Cardinality({i \in DOMAIN tasks : ~tasks[i].err})


\* ------------------------------------------------------------------ C3
\* C3: every distinct identifier absent from the cache reply gets exactly one
\* store fetch during the request; if that fetch succeeds, the stored profile is
\* in the Result and exactly one write-back was issued for the identifier.
C3_MissFetchedOnce ==
  /\ \A k \in Ids : storeCalls[k] <= 1 /\ setCalls[k] <= 1
  /\ pc = "done" =>
       \A k \in Requested \ DOMAIN resMap :
         /\ storeCalls[k] = 1
         /\ \A i \in TasksFor(k) :
              ~tasks[i].err =>
                /\ k \in DOMAIN store
                /\ CopiesIn(store[k], res.Hotels) >= 1
                /\ setCalls[k] = 1

\* The scenario ids = [h1, h2, h1] with h2 cached and h1 only in the store.
C3_Witness ==
  /\ pc = "done"
  /\ hotelIds = [k \in {"h1", "h2"} |-> IF k = "h1" THEN 2 ELSE 1]
  /\ DOMAIN resMap = {"h2"}
  /\ \E i \in DOMAIN tasks : tasks[i].hotelId = "h1" /\ ~tasks[i].err
  /\ storeCalls["h1"] = 1
  /\ setCalls["h1"] = 1
  /\ res.Hotels = SetToBag({Hotel("h1", "ok"), Hotel("h2", "ok")})

\* ------------------------------------------------------------------ C4
\* C4: when the cache read reports a connectivity fault the call aborts: no
\* fetch task exists, no store call and no write-back is issued, and the caller
\* receives no Result.
C4_FatalCacheFault ==
  cacheFault =>
    /\ pc \in {"panic", "panicked"}
    /\ tasks = <<>>
    /\ wg = 0
    /\ \A k \in Ids : storeCalls[k] = 0 /\ setCalls[k] = 0
    /\ inflight = {}
    /\ ~res.returned

C4_Witness ==
  /\ pc = "panicked"
  /\ cacheFault
  /\ Cardinality(profileMap) >= 2

\* ------------------------------------------------------------------ C5
\* C5: a failed store fetch does not fail the call: the call is never aborted,
\* it can return once every task has signalled the barrier, and the profile of
\* every task whose fetch succeeded is in the Result.
C5_PartialFailureIsolated ==
  (\E i \in DOMAIN tasks : tasks[i].err) =>
    /\ pc \notin {"panic", "panicked"}
    /\ (pc = "wait" /\ \A i \in DOMAIN tasks : Signalled(tasks[i])) => ENABLED Return
    /\ pc = "done" =>
         /\ res.returned
         /\ \A i \in DOMAIN tasks :
              ~tasks[i].err =>
                /\ tasks[i].hotelId \in DOMAIN store
                /\ CopiesIn(store[tasks[i].hotelId], res.Hotels) >= 1

C5_Witness ==
  /\ pc = "done"
  /\ Len(tasks) = 3
  /\ Cardinality({i \in DOMAIN tasks : tasks[i].err}) = 1

\* ------------------------------------------------------------------ C6
\* C6: when the cache reply holds every requested identifier, no fetch task is
\* spawned, no store call is made and no session is acquired, and the Result is
\* the cached profiles, one per identifier.
C6_CacheShortCircuit ==
  (pc \in {"wait", "done"} /\ Requested \subseteq DOMAIN resMap) =>
    /\ tasks = <<>>
    /\ wg = 0
    /\ \A k \in Ids : storeCalls[k] = 0
    /\ pc = "done" =>
         /\ BagCardinality(res.Hotels) = Cardinality(Requested)
         /\ \A k \in Requested : CopiesIn(Unmarshal(resMap[k], ZeroHotel).h, res.Hotels) >= 1

C6_Witness ==
  /\ pc = "done"
  /\ Cardinality(Requested) >= 2
  /\ Requested \subseteq DOMAIN resMap

\* ------------------------------------------------------------------ C7
\* C7: a cache hit whose payload cannot be decoded is treated as a miss: the
\* identifier stays pending, a store fetch is made for it, and the bad payload
\* adds no record to the Result.
C7_BadPayloadIsMiss ==
  pc \in {"wait", "done"} =>
    \A k \in DOMAIN resMap :
      Unmarshal(resMap[k], ZeroHotel).err =>
        /\ k \in profileMap
        /\ TasksFor(k) # {}
        /\ pc = "done" => storeCalls[k] = 1

\* ------------------------------------------------------------------ C8
\* C8: one task is spawned per identifier pending after the cache pass, and
\* GetProfiles returns only after every task has made its store call and its
\* append and has signalled the barrier: the returned Result is the final
\* content of the shared collection.
C8_Barrier ==
  /\ pc \in {"wait", "done"} =>
       /\ Len(tasks) = Cardinality(profileMap)
       /\ \A k \in profileMap : Cardinality(TasksFor(k)) = 1
  /\ pc = "done" =>
       /\ \A i \in DOMAIN tasks : MadeAppend(tasks[i]) /\ Signalled(tasks[i])
       /\ res.Hotels = hotels

C8_Witness ==
  /\ pc = "done"
  /\ Len(tasks) = 3


\* ------------------------------------------------------------------ C9
\* The spans of label tuple l that are started and not yet finished.
OpenSpans(l) ==
  IF l = ServerLabels THEN serverSpan.started - serverSpan.finishes
  ELSE IF l = MemcLabels THEN clientSpan.started - clientSpan.finishes
  ELSE Cardinality({i \in DOMAIN tasks : tasks[i].span.started > tasks[i].span.finishes})

\* C9: no span is finished more than once; when the call has ended (returned or
\* panicked) the server span and the cache span are finished exactly once, and
\* so is the store span of every task that made its store call, failed or not;
\* the counter and the histogram of a label tuple count the finished spans of
\* that tuple, so they equal the number of spans started once none is open.
C9_SpanFinishedOnce ==
  /\ serverSpan.finishes <= serverSpan.started
  /\ clientSpan.finishes <= clientSpan.started
  /\ \A i \in DOMAIN tasks : tasks[i].span.finishes <= tasks[i].span.started
  /\ pc \in {"done", "panicked"} =>
       /\ serverSpan.started = 1 /\ serverSpan.finishes = 1
       /\ clientSpan.started = 1 /\ clientSpan.finishes = 1
  /\ \A i \in DOMAIN tasks :
       tasks[i].pc # "spawned" => tasks[i].span.started = 1 /\ tasks[i].span.finishes = 1
  /\ \A l \in LabelTuples :
       /\ requestCounter[l] = spansStarted[l] - OpenSpans(l)
       /\ latencyHistogram[l] = spansStarted[l] - OpenSpans(l)
  /\ spansStarted[ServerLabels] = serverSpan.started
  /\ spansStarted[MemcLabels] = clientSpan.started
  /\ spansStarted[MongoLabels] = Cardinality({i \in DOMAIN tasks : tasks[i].span.started = 1})

C9_Witness ==
  /\ pc = "done"
  /\ \E i \in DOMAIN tasks : tasks[i].err
  /\ requestCounter[MongoLabels] = 3
  /\ requestCounter[ServerLabels] = 1

\* ----------------------------------------------------------------- C10
\* C10: a task can signal the barrier while its write-back is still in
\* flight; a write-back that runs, with success or failure, changes neither the
\* shared collection, the barrier, the Result nor the outcome of the call; and
\* once GetProfiles has returned its Result and outcome stay as they are.
C10_WriteBackDetached ==
  /\ [](\A i \in DOMAIN tasks : tasks[i].pc = "return" => ENABLED Done(i))
  /\ [][/\ (inflight' # inflight /\ inflight' \subseteq inflight)
             => UNCHANGED <<hotels, wg, res, pc>>
        /\ pc = "done" => (pc' = "done" /\ res' = res)]_vars

\* GetProfiles has returned and a write-back of the request has not run yet.
C10_Witness ==
  /\ pc = "done"
  /\ res.returned
  /\ inflight # {}
  /\ \E m \in inflight : m.Key \notin DOMAIN cache

\* ----------------------------------------------------------------- C11
\* C11: a write-back is issued only by a task whose store fetch succeeded and
\* carries the encoding of the fetched profile; a task whose fetch failed issues
\* no write-back.
C11_WriteBackOnlyOnSuccess ==
  /\ \A m \in inflight :
       /\ ~tasks[m.task].err
       /\ m.Key \in DOMAIN store
       /\ m.Value = Marshal(store[m.Key]).bytes
  /\ \A i \in DOMAIN tasks : tasks[i].err => setCalls[tasks[i].hotelId] = 0

\* ----------------------------------------------------------------- C12
\* The appends made so far: one per cache hit, one per task past its append.
AppendsMade ==
  (IF pc \in {"wait", "done"} THEN Cardinality(DOMAIN resMap) ELSE 0)
    + Cardinality({i \in DOMAIN tasks : MadeAppend(tasks[i])})

\* C12: at most one task is inside the append critical section; the mutex is
\* held exactly by the task that is there, never by a task in its store call or
\* issuing its write-back; and no append is lost: the shared collection, and
\* the returned Result, hold one record per append made.
C12_AppendsExclusive ==
  /\ Cardinality({i \in DOMAIN tasks : tasks[i].pc = "append"}) <= 1
  /\ \A i \in DOMAIN tasks : (mutex = i) <=> (tasks[i].pc = "append")
  /\ mutex \in {0} \cup DOMAIN tasks
  /\ BagCardinality(hotels) = AppendsMade
  /\ pc = "done" =>
       BagCardinality(res.Hotels) = Cardinality(DOMAIN resMap) + Len(tasks)

\* Two tasks want the lock while a third holds it.
C12_Witness ==
  /\ Len(tasks) = 3
  /\ \E i \in DOMAIN tasks :
       /\ mutex = i
       /\ \A j \in DOMAIN tasks \ {i} : tasks[j].pc = "lock"

\* ------------------------------------------------------------------ C14
\* C14 (as stated): GetProfiles issues exactly one batched cache read per
\* request and its key argument holds each distinct identifier of the request
\* once, also when the request contains duplicates.
C14_KeysDistinct ==
  /\ memcGets <= 1
  /\ memcGets = 1 => memcKeys = SetToBag(BagToSet(req))

\* C14 (amended): exactly one batched cache read is issued per request, on the
\* fault path too, and its key argument holds every identifier of the request
\* as often as the request names it; the distinct keys are the distinct
\* identifiers of the request.
C14_OneReadAllIds ==
  /\ memcGets = (IF pc \in {"start", "memc"} THEN 0 ELSE 1)
  /\ memcGets = 1 =>
       /\ memcKeys = req
       /\ BagToSet(memcKeys) = BagToSet(req)

\* A request naming one identifier twice has been served.
C14_Witness ==
  /\ pc = "done"
  /\ memcGets = 1
  /\ \E k \in BagToSet(req) : req[k] = 2 /\ memcKeys[k] = 2

\* ------------------------------------------------------------------ C16
\* C16: when a successfully fetched record cannot be re-encoded for the cache,
\* no cache write-back is issued for its identifier; the record is still
\* appended and the request still returns.
C16_MarshalFaultSkipsWriteBack ==
  \A i \in DOMAIN tasks :
    (~tasks[i].err /\ tasks[i].marshalErr) =>
      /\ setCalls[tasks[i].hotelId] = 0
      /\ \A m \in inflight : m.task # i
      /\ pc = "done" => tasks[i].hotelProf \in BagToSet(res.Hotels)

\* ------------------------------------------------------------------ C18
\* Every cache entry holds the serialization of the store's record of its key.
Coherent ==
  \A k \in DOMAIN cache :
    /\ k \in DOMAIN store
    /\ ~Marshal(store[k]).err
    /\ cache[k] = Marshal(store[k]).bytes

\* C18: cache coherence is preserved by every step of the path, store-fetch
\* failures included: a coherent cache stays coherent.
C18_CoherencePreserved == [][Coherent => Coherent']_vars

\* ------------------------------------------------------------------ C19
\* C19: the cache pass partitions the distinct identifiers of a request. The
\* identifiers handed to fetch tasks are exactly the distinct requested
\* identifiers minus the keys of the cache reply, one task each; an identifier
\* the cache returned gets no store fetch and no write-back in the request.
C19_HitsMissesPartition ==
  pc \in {"wait", "done"} =>
    /\ {tasks[i].hotelId : i \in DOMAIN tasks} = Requested \ DOMAIN resMap
    /\ profileMap = Requested \ DOMAIN resMap
    /\ \A i, j \in DOMAIN tasks : tasks[i].hotelId = tasks[j].hotelId => i = j
    /\ \A k \in DOMAIN resMap :
         /\ storeCalls[k] = 0
         /\ setCalls[k] = 0
         /\ \A m \in inflight : m.Key # k

\* A request with a hit and a miss has been served, the miss fetched and written back.
C19_Witness ==
  /\ pc = "done"
  /\ DOMAIN resMap # {}
  /\ \E i \in DOMAIN tasks :
       /\ storeCalls[tasks[i].hotelId] = 1
       /\ setCalls[tasks[i].hotelId] = 1
  /\ \A k \in Ids \ Requested : storeCalls[k] = 0

\* ------------------------------------------------------------------ C20
\* The task has issued its write-back.
WroteBack(t) == t.pc \in {"return", "close", "exit"}

\* The keys whose cache entry a step creates or changes.
CacheChanged ==
  {k \in DOMAIN cache' : k \notin DOMAIN cache \/ cache'[k] # cache[k]}

\* C20: frame of GetProfiles. No step modifies the store or removes a cache
\* entry; a step changes the cache only under the identifier of a fetch task
\* of the request that has issued its write-back, to the value that task
\* encoded, and never under a key the cache read returned as a hit.
C20_Frame ==
  [][/\ store' = store
     /\ DOMAIN cache \subseteq DOMAIN cache'
     /\ \A k \in CacheChanged :
          /\ k \notin DOMAIN resMap
          /\ \E i \in DOMAIN tasks :
               /\ tasks[i].hotelId = k
               /\ WroteBack(tasks[i])
               /\ cache'[k] = Marshal(tasks[i].hotelProf).bytes]_vars

\* A request with a hit and a miss has been served and the write-back of the
\* miss has reached the cache: the missed key is now present.
C20_Witness ==
  /\ pc = "done"
  /\ inflight = {}
  /\ \E k \in DOMAIN resMap : k \in DOMAIN cache /\ cache[k] = resMap[k]
  /\ \E i \in DOMAIN tasks :
       /\ tasks[i].hotelId \notin DOMAIN resMap
       /\ tasks[i].hotelId \in DOMAIN cache
       /\ cache[tasks[i].hotelId] = Marshal(tasks[i].hotelProf).bytes

\* ------------------------------------------------- fair scheduling
\* The Go scheduler runs every runnable goroutine: each step of the handler
\* and of a fetch goroutine that stays possible is eventually taken. Fairness
\* of Fetch is the hypothesis that every store call returns. Nothing is
\* assumed of the detached write-backs.
Fairness ==
  /\ WF_vars(MemcGet)
  /\ WF_vars(Panic)
  /\ WF_vars(CachePass)
  /\ WF_vars(Return)
  /\ \A i \in 1..MaxTasks :
       /\ WF_vars(Fetch(i))
       /\ WF_vars(Lock(i))
       /\ WF_vars(AppendUnlock(i))
       /\ WF_vars(WriteBack(i))
       /\ WF_vars(Done(i))
       /\ WF_vars(Close(i))

\* One store with a profile that encodes, one that does not and one missing,
\* under every cache earlier requests can have left for it.
FairStore == [k \in {"h1", "h2"} |-> IF k = "h1" THEN Hotel(k, "ok") ELSE Hotel(k, "NaN")]

FairInit == Init /\ store = FairStore

FairSpec == FairInit /\ [][Next]_vars /\ Fairness

\* ------------------------------------------------------------------ C13
\* The tasks that have not signalled the barrier.
Unsignalled == {i \in DOMAIN tasks : ~Signalled(tasks[i])}

\* C13: under fair scheduling a request whose cache read returned without a
\* connectivity fault eventually returns. The barrier count is never negative
\* and equals the number of tasks that have not yet signalled, whatever their
\* fetch returned; a held mutex is eventually released; and while a store call
\* has not returned the handler cannot return.
C13_Terminates ==
  /\ [](wg >= 0)
  /\ [](pc \in {"wait", "done"} => wg = Cardinality(Unsignalled))
  /\ []((pc = "wait" /\ \E i \in DOMAIN tasks : tasks[i].pc = "spawned")
          => ~ENABLED Return)
  /\ (pc = "hits") ~> (pc = "done")
  /\ (mutex # 0) ~> (mutex = 0)

\* A request has returned after three fetches, one failed and one not.
C13_Witness ==
  /\ pc = "done"
  /\ Len(tasks) = 3
  /\ \E i, j \in DOMAIN tasks : tasks[i].err /\ ~tasks[j].err
  /\ wg = 0
  /\ mutex = 0

\* ------------------------------------------------------------------ C15
\* The session of a task is open from its Copy to its deferred Close.
SessionHeld(t) == t.pc \in {"lock", "append", "marshal", "return", "close"}

\* C15: every fetch task copies a session of its own before its store call
\* and closes it once on its way out, whatever the fetch returned: the session
\* is open exactly while the task is between the two, the one store call of
\* the task is made by then, a closed session stays closed, every open session
\* is eventually closed, and a request that ends in the fatal cache fault
\* copies no session.
C15_SessionScoped ==
  /\ [](\A i \in DOMAIN tasks :
          /\ tasks[i].session = "none" <=> tasks[i].pc = "spawned"
          /\ tasks[i].session = "open" <=> SessionHeld(tasks[i])
          /\ tasks[i].session = "closed" <=> tasks[i].pc = "exit"
          /\ tasks[i].session = "none" => tasks[i].span = NoSpan
          /\ tasks[i].session # "none" => tasks[i].span.finishes = 1)
  /\ [](storeCalls = [k \in Ids |->
          Cardinality({i \in TasksFor(k) : tasks[i].session # "none"})])
  /\ [][\A i \in DOMAIN tasks :
          tasks[i].session = "closed" => tasks'[i].session = "closed"]_vars
  /\ [](cacheFault => tasks = <<>>)
  /\ \A i \in 1..MaxTasks :
       (i \in DOMAIN tasks /\ tasks[i].session = "open")
         ~> (i \in DOMAIN tasks /\ tasks[i].session = "closed")

\* Every task of a request with a failed and a successful fetch has closed
\* its session.
C15_Witness ==
  /\ Len(tasks) >= 2
  /\ \E i, j \in DOMAIN tasks : tasks[i].err /\ ~tasks[j].err
  /\ \A i \in DOMAIN tasks : tasks[i].pc = "exit" /\ tasks[i].session = "closed"

\* ------------------------------------------------- two concurrent calls
\* The gRPC server runs every GetProfiles call on a goroutine of its own. Two
\* calls are modelled by the running call's locals (the variables above) and
\* the locals of the call that is not running (other); a switch between them
\* can happen at every step. store, cache, the detached write-backs and the
\* metric vectors belong to the process and are shared.

\* Longest req.HotelIds of each of the two calls.
MaxLen2 == 1

\* The identifiers the two calls draw from: one the store holds, one it lacks.
Ids2 == {"h1", "h3"}

Requests2 == UNION {[1..n -> Ids2] : n \in 0..MaxLen2}

\* The locals of the running call.
Locals ==
  [req |-> req, pc |-> pc, hotelIds |-> hotelIds, profileMap |-> profileMap,
   resMap |-> resMap, cacheFault |-> cacheFault, hotels |-> hotels, wg |-> wg,
   mutex |-> mutex, tasks |-> tasks, res |-> res, serverSpan |-> serverSpan,
   clientSpan |-> clientSpan, memcKeys |-> memcKeys]

\* Calls whose result slice, barrier and mutex are package-level variables.
ResumeSharedLocals(saved, cur) ==
  [saved EXCEPT !.hotels = cur.hotels, !.wg = cur.wg, !.mutex = cur.mutex]

\* Lines 155-162: hotels, wg, mutex, hotelIds and profileMap are declared inside
\* GetProfiles, so a call that runs again finds the locals it left, whatever
\* the other call (cur) did meanwhile.
Resume(saved, cur) == saved

\* The scheduler leaves the running call and runs the other one.
Switch ==
  /\ other' = Locals
  /\ LET l == Resume(other, Locals)
     IN /\ req' = l.req
        /\ pc' = l.pc
        /\ hotelIds' = l.hotelIds
        /\ profileMap' = l.profileMap
        /\ resMap' = l.resMap
        /\ cacheFault' = l.cacheFault
        /\ hotels' = l.hotels
        /\ wg' = l.wg
        /\ mutex' = l.mutex
        /\ tasks' = l.tasks
        /\ res' = l.res
        /\ serverSpan' = l.serverSpan
        /\ clientSpan' = l.clientSpan
        /\ memcKeys' = l.memcKeys
  /\ UNCHANGED <<store, cache, inflight, requestCounter, latencyHistogram, spansStarted,
                 countVars>>

Next2 ==
  \/ \E ids \in Requests2 : Begin(ids)
  \/ MemcGet
  \/ Panic
  \/ CachePass
  \/ Return
  \/ \E i \in 1..MaxTasks : Fetch(i)
  \/ \E i \in 1..MaxTasks : Lock(i)
  \/ \E i \in 1..MaxTasks : AppendUnlock(i)
  \/ \E i \in 1..MaxTasks : WriteBack(i)
  \/ \E i \in 1..MaxTasks : Done(i)
  \/ \E i \in 1..MaxTasks : Close(i)
  \/ \E m \in inflight : MemcSet(m)
  \/ Switch

\* Both calls start against the store above and a cache that holds nothing yet.
Init2 == FairInit /\ cache = <<>>

Spec2 == Init2 /\ [][Next2]_vars

\* ------------------------------------------------------------------ C17
\* The tasks of a call with locals l that have not signalled its barrier.
UnsignalledOf(l) == {i \in DOMAIN l.tasks : ~Signalled(l.tasks[i])}

\* What a call with locals l owes to nothing but its own request and tasks.
OwnStateOnly(l) ==
  /\ l.profileMap \subseteq BagToSet(l.req)
  /\ IdsOf(l.hotels) \subseteq BagToSet(l.req) \cup {""}
  /\ l.pc \in {"wait", "done"} =>
       /\ l.wg = Cardinality(UnsignalledOf(l))
       /\ BagCardinality(l.hotels) =
            Cardinality(DOMAIN l.resMap)
              + Cardinality({i \in DOMAIN l.tasks : MadeAppend(l.tasks[i])})
  /\ l.mutex \in {0} \cup DOMAIN l.tasks
  /\ \A i \in DOMAIN l.tasks :
       (l.mutex = i) <=> (l.tasks[i].pc = "append")
  /\ l.pc = "done" =>
       /\ UnsignalledOf(l) = {}
       /\ IdsOf(l.res.Hotels) \subseteq BagToSet(l.req) \cup {""}
       /\ BagCardinality(l.res.Hotels) = Cardinality(BagToSet(l.req))

\* C17: two concurrent GetProfiles calls share nothing but the cache and the
\* store. Under every interleaving each call's pending set, result slice,
\* mutex and barrier are determined by its own request and its own tasks: no
\* record of one call appears in the other's Result and a call returns only
\* when all of its own tasks have signalled.
C17_CallsIndependent == OwnStateOnly(Locals) /\ OwnStateOnly(other)

\* One call has returned the profile it fetched while the other call, for a
\* different identifier, still waits for its task, which holds that call's mutex.
C17_Witness ==
  /\ pc = "done"
  /\ Len(tasks) = 1
  /\ IdsOf(res.Hotels) = BagToSet(req)
  /\ other.pc = "wait"
  /\ other.wg = 1
  /\ other.mutex = 1
  /\ BagToSet(other.req) \cap BagToSet(req) = {}

====
